---- MODULE Spec2Model ----
(***************************************************************************)
(* Model of the Baly ticket API: the ticket router (create, list, export,  *)
(* delete) of routes/tickets.ts over the Prisma ticket table, and the      *)
(* request dispatch chain of backend/src/server.ts.                        *)
(***************************************************************************)
EXTENDS Integers, Sequences, FiniteSets, TLC

VARIABLES
    tickets,    \* the ticket table: a set of rows [id, reason, tripDate, createdAt]
    nextId,     \* the table's autoincrement sequence
    now,        \* the clock that stamps createdAt
    tz,         \* the server's time-zone offset (local = UTC + tz), in ticks
    pc,         \* per connection: where its handler stands
    req,        \* per connection: the request being served or just answered
    loc,        \* per connection: the handler's locals across its await points
    resp,       \* per connection: the response sent for req
    issued,     \* the ticketId of every 201 response, in the order sent
    dist,       \* the files of the frontend bundle directory
    http        \* the request in the server's dispatch chain

vars == <<tickets, nextId, now, tz, pc, req, loc, resp, issued, dist, http>>

----------------------------------------------------------------------------
(* Bounds and input catalogues *)

MaxTickets == 3
TicksPerDay == 2

Conns == {1, 2}
TZOffsets == {-1, 0, 1}
Reasons == {"r1", "r2"}
Days == {1, 2}

\* date strings: <<d>> is the date-only form, <<d, h>> a date-time of day d
Bodies ==
    {[reason |-> "r1", tripDate |-> <<1>>],
     [reason |-> "r1", tripDate |-> <<1, 1>>],
     [reason |-> "r2", tripDate |-> <<2>>],
     [reason |-> "", tripDate |-> <<1>>]}

DateParams == {<<>>} \cup {<<d>> : d \in Days}

\* the queries of the filter: every reason and date combination, default paging
FilterQueries ==
    [reason : Reasons \cup {""}, start_date : DateParams, end_date : DateParams,
     page : {<<>>}, limit : {<<>>}]

\* the queries of the paging: pages up to one beyond the last, limit 0 is invalid
PageQueries ==
    [reason : {"", "r1"}, start_date : {<<>>}, end_date : {<<>>},
     page : {<<>>, <<2>>, <<3>>, <<4>>}, limit : {<<0>>, <<1>>, <<2>>}]

Queries == FilterQueries \cup PageQueries

\* the inputs of the concurrent connections
ConcBodies == {[reason |-> "r1", tripDate |-> <<1>>]}
ConcQueries ==
    [reason : {""}, start_date : {<<>>}, end_date : {<<>>},
     page : {<<>>, <<2>>}, limit : {<<1>>, <<2>>}]

\* path ids of DELETE /:id, as character sequences
RawIds == {<<"1">>, <<"2">>, <<"4">>, <<"a">>, <<"1", "a">>, <<"-", "1">>}

----------------------------------------------------------------------------
(* Dates *)

\* new Date(str): the date-only form is UTC midnight, a date-time is local time
NewDate(s) ==
    IF Len(s) = 1 THEN s[1] * TicksPerDay
    ELSE s[1] * TicksPerDay + s[2] - tz

\* Date.prototype.setHours(h, ...): the given time of day on the LOCAL day of t
SetHours(t, h) == (((t + tz) \div TicksPerDay) * TicksPerDay + h) - tz

EndOfDayTick == TicksPerDay - 1

----------------------------------------------------------------------------
(* The where clause *)

BuildWhere(q) ==
    [reason |-> q.reason,
     tripDate |->
        IF q.start_date # <<>> /\ q.end_date # <<>>
        THEN <<NewDate(q.start_date), NewDate(q.end_date)>>
        ELSE IF q.start_date # <<>>
        THEN <<NewDate(q.start_date), SetHours(NewDate(q.start_date), EndOfDayTick)>>
        ELSE IF q.end_date # <<>>
        THEN <<SetHours(NewDate(q.end_date), 0), NewDate(q.end_date)>>
        ELSE <<>>]

Matches(t, where) ==
    /\ (where.reason # "" => t.reason = where.reason)
    /\ (where.tripDate # <<>> =>
            t.tripDate >= where.tripDate[1] /\ t.tripDate <= where.tripDate[2])

Matching(where) == {t \in tickets : Matches(t, where)}

----------------------------------------------------------------------------
(* The data access layer over the ticket table *)

\* prisma.ticket.count({ where })
Count(where) == Cardinality(Matching(where))

\* the orders `orderBy: { createdAt: 'desc' }` allows: rows with equal createdAt
\* come in any order
DescOrders(S) ==
    {s \in [1..Cardinality(S) -> S] :
        /\ \A i, j \in 1..Cardinality(S) : i # j => s[i] # s[j]
        /\ \A i, j \in 1..Cardinality(S) : i < j => s[i].createdAt >= s[j].createdAt}

\* skip / take on an ordered result
SkipTake(ord, skip, take) ==
    IF skip >= Len(ord) THEN <<>>
    ELSE SubSeq(ord, skip + 1, IF skip + take < Len(ord) THEN skip + take ELSE Len(ord))

\* prisma.ticket.findMany({ where, skip, take, orderBy }): the possible results
FindMany(where, skip, take) ==
    {SkipTake(ord, skip, take) : ord \in DescOrders(Matching(where))}

\* prisma.ticket.findMany({ where, orderBy }): the possible results
FindManyAll(where) == DescOrders(Matching(where))

\* prisma.ticket.findUnique({ where: { id } }): <<row>> or <<>> (null)
FindUnique(id) ==
    IF \E t \in tickets : t.id = id
    THEN <<CHOOSE t \in tickets : t.id = id>>
    ELSE <<>>

\* the row prisma.ticket.create inserts: id from the autoincrement sequence,
\* createdAt from the clock
NewRow(data, at) ==
    [id |-> nextId, reason |-> data.reason, tripDate |-> data.tripDate, createdAt |-> at]

----------------------------------------------------------------------------
(* Responses *)

NoResp ==
    [status |-> 0, ticketId |-> 0, page |-> 0, totalPages |-> 0, totalTickets |-> 0,
     tickets |-> <<>>]

Status(code) == [NoResp EXCEPT !.status = code]

\* createError(message, statusCode) through next(error) to errorHandler
ErrorHandler(err) == Status(IF err.statusCode # <<>> THEN err.statusCode[1] ELSE 500)

CreateError(code) == [statusCode |-> <<code>>]

\* the error prisma.ticket.delete throws when the row is gone
RecordNotFound == [statusCode |-> <<>>]

\* express-validator chain of create: reason is one of the closed set
ValidCreateTicket(body) == body.reason \in Reasons

\* express-validator chain of list / export: page and limit are positive integers
ValidGetTickets(q) ==
    /\ (q.page # <<>> => q.page[1] >= 1)
    /\ (q.limit # <<>> => q.limit[1] >= 1)

Ids(rows) == [i \in 1..Len(rows) |-> rows[i].id]

\* Math.ceil(totalTickets / limitNum)
Ceil(n, d) == (n + d - 1) \div d

----------------------------------------------------------------------------
(* parseInt *)

DigitVal ==
    ("0" :> 0) @@ ("1" :> 1) @@ ("2" :> 2) @@ ("3" :> 3) @@ ("4" :> 4) @@
    ("5" :> 5) @@ ("6" :> 6) @@ ("7" :> 7) @@ ("8" :> 8) @@ ("9" :> 9)

RECURSIVE LeadingDigits(_)
LeadingDigits(s) ==
    IF s = <<>> \/ s[1] \notin DOMAIN DigitVal THEN <<>>
    ELSE <<s[1]>> \o LeadingDigits(Tail(s))

RECURSIVE DecimalValue(_)
DecimalValue(ds) ==
    IF ds = <<>> THEN 0
    ELSE DecimalValue(SubSeq(ds, 1, Len(ds) - 1)) * 10 + DigitVal[ds[Len(ds)]]

\* parseInt(str): an optional sign, then the longest run of digits; what follows
\* the digits is ignored. <<n>> for a number, <<>> for NaN.
ParseInt(s) ==
    LET signed == s # <<>> /\ s[1] \in {"-", "+"}
        ds == LeadingDigits(IF signed THEN Tail(s) ELSE s)
    IN  IF ds = <<>> THEN <<>>
        ELSE <<(IF signed /\ s[1] = "-" THEN -1 ELSE 1) * DecimalValue(ds)>>

----------------------------------------------------------------------------
(* The ticket router *)

DefaultPage == 1
DefaultLimit == 20

Free(p) == pc[p] = "idle"

NoReq == [op |-> "none"]
NoLoc == [totalTickets |-> 0, ticketId |-> 0]

\* res.json / res.send / next(error): request rq of connection p is answered by r
Respond(p, rq, r) ==
    /\ resp' = [resp EXCEPT ![p] = r]
    /\ pc' = [pc EXCEPT ![p] = "done"]
    /\ req' = [req EXCEPT ![p] = rq]
    /\ loc' = [loc EXCEPT ![p] = NoLoc]

\* the response has gone out: connection p is ready for its next request
Close(p) ==
    /\ pc[p] = "done"
    /\ pc' = [pc EXCEPT ![p] = "idle"]
    /\ req' = [req EXCEPT ![p] = NoReq]
    /\ resp' = [resp EXCEPT ![p] = NoResp]
    /\ UNCHANGED <<tickets, nextId, now, tz, loc, issued, dist, http>>

\* the handler of connection p suspends on a query
Await(p, r, l, at) ==
    /\ resp' = [resp EXCEPT ![p] = NoResp]
    /\ pc' = [pc EXCEPT ![p] = at]
    /\ req' = [req EXCEPT ![p] = r]
    /\ loc' = [loc EXCEPT ![p] = l]

\* Create with the id taken from the number of rows
CreateIdFromCount(p, body) ==
    /\ Free(p)
    /\ nextId <= MaxTickets
    /\ IF ~ValidCreateTicket(body)
       THEN /\ Respond(p, [op |-> "create", body |-> body], ErrorHandler(CreateError(400)))
            /\ UNCHANGED <<tickets, nextId, now, issued, dist, http>>
       ELSE \E at \in {now, now + 1} :
            LET ticket == [NewRow([reason |-> body.reason,
                                   tripDate |-> NewDate(body.tripDate)], at)
                              EXCEPT !.id = Cardinality(tickets) + 1]
            IN  /\ tickets' = tickets \cup {ticket}
                /\ nextId' = nextId + 1
                /\ now' = at
                /\ Respond(p, [op |-> "create", body |-> body],
                           [Status(201) EXCEPT !.ticketId = ticket.id])
                /\ issued' = Append(issued, ticket.id)
    /\ UNCHANGED <<tz, dist, http>>

\* POST /api/tickets
Create(p, body) ==
    /\ Free(p)
    /\ nextId <= MaxTickets
    /\ IF ~ValidCreateTicket(body)
       THEN /\ Respond(p, [op |-> "create", body |-> body], ErrorHandler(CreateError(400)))
            /\ UNCHANGED <<tickets, nextId, now, issued, dist, http>>
       ELSE \E at \in {now, now + 1} :
            LET ticket == NewRow([reason |-> body.reason,
                                  tripDate |-> NewDate(body.tripDate)], at)
            IN  /\ tickets' = tickets \cup {ticket}
                /\ nextId' = nextId + 1
                /\ now' = at
                /\ Respond(p, [op |-> "create", body |-> body],
                           [Status(201) EXCEPT !.ticketId = ticket.id])
                /\ issued' = Append(issued, ticket.id)
    /\ UNCHANGED <<tz, dist, http>>

PageNum(q) == IF q.page = <<>> THEN DefaultPage ELSE q.page[1]
LimitNum(q) == IF q.limit = <<>> THEN DefaultLimit ELSE q.limit[1]
\* skip computed from a 0-based page
SkipFromPage(q) == PageNum(q) * LimitNum(q)

\* const skip = (pageNum - 1) * limitNum
Skip(q) == (PageNum(q) - 1) * LimitNum(q)

\* ListResponse without the check of an empty page
ListResponseEmptyPage(pageNum, limitNum, totalTickets, rows) ==
    [Status(200) EXCEPT !.page = pageNum,
                        !.totalPages = Ceil(totalTickets, limitNum),
                        !.totalTickets = totalTickets,
                        !.tickets = Ids(rows)]

\* the response of GET /api/tickets once both queries have answered
ListResponse(pageNum, limitNum, totalTickets, rows) ==
    IF Len(rows) = 0
    THEN ErrorHandler(CreateError(404))
    ELSE [Status(200) EXCEPT !.page = pageNum,
                             !.totalPages = Ceil(totalTickets, limitNum),
                             !.totalTickets = totalTickets,
                             !.tickets = Ids(rows)]

\* GET /api/tickets, up to `await prisma.ticket.count`
ListCount(p, q) ==
    /\ Free(p)
    /\ IF ~ValidGetTickets(q)
       THEN Respond(p, [op |-> "list", query |-> q], ErrorHandler(CreateError(400)))
       ELSE Await(p, [op |-> "list", query |-> q],
                  [NoLoc EXCEPT !.totalTickets = Count(BuildWhere(q))], "listFind")
    /\ UNCHANGED <<tickets, nextId, now, tz, issued, dist, http>>

\* GET /api/tickets, from `await prisma.ticket.findMany` to the response
ListFind(p) ==
    /\ pc[p] = "listFind"
    /\ LET q == req[p].query
       IN  \E rows \in FindMany(BuildWhere(q), Skip(q), LimitNum(q)) :
              Respond(p, req[p],
                      ListResponse(PageNum(q), LimitNum(q), loc[p].totalTickets, rows))
    /\ UNCHANGED <<tickets, nextId, now, tz, issued, dist, http>>

\* the where clause of GET /api/tickets/export
ExportWhere(q) ==
    [reason |-> q.reason,
     tripDate |->
        IF q.start_date # <<>> /\ q.end_date # <<>>
        THEN <<NewDate(q.start_date), NewDate(q.end_date)>>
        ELSE IF q.start_date # <<>>
        THEN <<NewDate(q.start_date), SetHours(NewDate(q.start_date), EndOfDayTick)>>
        ELSE IF q.end_date # <<>>
        THEN <<SetHours(NewDate(q.end_date), 0), NewDate(q.end_date)>>
        ELSE <<>>]

\* the response of GET /api/tickets/export: the CSV's rows
ExportResponse(rows) ==
    IF Len(rows) = 0
    THEN ErrorHandler(CreateError(404))
    ELSE [Status(200) EXCEPT !.tickets = Ids(rows)]

\* GET /api/tickets/export
Export(p, q) ==
    /\ Free(p)
    /\ IF ~ValidGetTickets(q)
       THEN Respond(p, [op |-> "export", query |-> q], ErrorHandler(CreateError(400)))
       ELSE \E rows \in FindManyAll(ExportWhere(q)) :
               Respond(p, [op |-> "export", query |-> q], ExportResponse(rows))
    /\ UNCHANGED <<tickets, nextId, now, tz, issued, dist, http>>

\* DELETE /api/tickets/:id, up to `await prisma.ticket.findUnique`
DeleteFind(p, raw) ==
    /\ Free(p)
    /\ LET ticketId == ParseInt(raw)
       IN  IF ticketId = <<>>
           THEN Respond(p, [op |-> "delete", id |-> raw], ErrorHandler(CreateError(400)))
           ELSE IF FindUnique(ticketId[1]) = <<>>
           THEN Respond(p, [op |-> "delete", id |-> raw], ErrorHandler(CreateError(404)))
           ELSE Await(p, [op |-> "delete", id |-> raw],
                      [NoLoc EXCEPT !.ticketId = ticketId[1]], "deleteDelete")
    /\ UNCHANGED <<tickets, nextId, now, tz, issued, dist, http>>

\* DELETE /api/tickets/:id, from `await prisma.ticket.delete` to the response
DeleteDelete(p) ==
    /\ pc[p] = "deleteDelete"
    /\ IF FindUnique(loc[p].ticketId) = <<>>
       THEN /\ Respond(p, req[p], ErrorHandler(RecordNotFound))
            /\ UNCHANGED tickets
       ELSE /\ tickets' = {t \in tickets : t.id # loc[p].ticketId}
            /\ Respond(p, req[p], Status(200))
    /\ UNCHANGED <<nextId, now, tz, issued, dist, http>>

----------------------------------------------------------------------------
(* The server's dispatch chain *)

\* paths as token sequences; "/apiary" is <<"/", "api", "ary">>
Root == <<"/">>
IndexHtml == <<"/", "index.html">>
ApiPrefix == <<"/", "api">>
TicketsMount == <<"/", "api", "/", "tickets">>
HealthPath == <<"/", "health">>

Paths ==
    {Root, IndexHtml, HealthPath, <<"/", "about">>, <<"/", "assets", "/", "app.js">>,
     <<"/", "api">>, <<"/", "api", "ary">>, <<"/", "api", "/", "unknown">>,
     TicketsMount, TicketsMount \o <<"/", "export">>, TicketsMount \o <<"/", "1">>,
     TicketsMount \o <<"/", "1", "/", "notes">>}
Methods == {"GET", "POST", "DELETE"}
Bundles == {{}, {IndexHtml, <<"/", "assets", "/", "app.js">>}}

\* String.prototype.startsWith
StartsWith(path, prefix) ==
    Len(path) >= Len(prefix) /\ SubSeq(path, 1, Len(prefix)) = prefix

\* the layers in the order server.ts registers them
Stack == <<"static", "tickets", "spa", "health", "error", "notFound">>

NoErr == <<>>
HttpIdle == [method |-> "", path |-> <<>>, layer |-> 0, err |-> NoErr, status |-> 0, by |-> ""]

Reply(code, who) == [kind |-> "respond", status |-> code, by |-> who]
CallNext == [kind |-> "next"]
CallNextErr(e) == [kind |-> "error", err |-> <<e>>]
Return == [kind |-> "return"]

\* express.static(frontendPath): a GET of an existing file is served, "/" as its index
ServeStatic(r) ==
    LET file == IF r.path = Root THEN IndexHtml ELSE r.path
    IN  IF r.method = "GET" /\ file \in dist THEN Reply(200, "static") ELSE CallNext

\* the path below the mount point, "/" when nothing follows it
BelowMount(path) ==
    IF Len(path) = Len(TicketsMount) THEN Root
    ELSE SubSeq(path, Len(TicketsMount) + 1, Len(path))

\* the routes of the ticket router
RouteMatches(method, rest) ==
    \/ method = "POST" /\ rest = Root
    \/ method = "GET" /\ rest = Root
    \/ method = "GET" /\ rest = <<"/", "export">>
    \/ method = "DELETE" /\ Len(rest) = 2 /\ rest[1] = "/"

\* app.use('/api/tickets', ticketRoutes)
TicketRoutes(r) ==
    IF /\ StartsWith(r.path, TicketsMount)
       /\ (Len(r.path) = Len(TicketsMount) \/ r.path[Len(TicketsMount) + 1] = "/")
       /\ RouteMatches(r.method, BelowMount(r.path))
    THEN Reply(0, "tickets")
    ELSE CallNext

\* the error res.sendFile passes to next when the file is missing
SendError == [statusCode |-> <<404>>]

\* app.get('*'): the entry document for a path outside /api, nothing otherwise
SpaFallback(r) ==
    IF r.method # "GET" THEN CallNext
    ELSE IF ~StartsWith(r.path, ApiPrefix)
    THEN IF IndexHtml \in dist THEN Reply(200, "spa") ELSE CallNextErr(SendError)
    ELSE Return

\* app.get('/health')
Health(r) ==
    IF r.method = "GET" /\ r.path = HealthPath THEN Reply(200, "health") ELSE CallNext

\* the error-handling middleware
ErrorMiddleware(r) == Reply(ErrorHandler(r.err[1]).status, "errorHandler")

\* app.use('*'): the 404 handler
NotFound(r) == Reply(404, "notFound")

\* what the layer at position r.layer does with the request
Handle(r) ==
    LET name == Stack[r.layer]
    IN  IF name = "error"
        THEN IF r.err = NoErr THEN CallNext ELSE ErrorMiddleware(r)
        ELSE IF r.err # NoErr THEN CallNextErr(r.err[1])
        ELSE IF name = "static" THEN ServeStatic(r)
        ELSE IF name = "tickets" THEN TicketRoutes(r)
        ELSE IF name = "spa" THEN SpaFallback(r)
        ELSE IF name = "health" THEN Health(r)
        ELSE NotFound(r)

\* a request arrives and enters the chain
Receive(method, path) ==
    /\ http.layer = 0
    /\ http' = [HttpIdle EXCEPT !.method = method, !.path = path, !.layer = 1]
    /\ UNCHANGED <<tickets, nextId, now, tz, pc, req, loc, resp, issued, dist>>

\* the request's current layer runs: it answers, passes the request on, or returns
Dispatch ==
    /\ http.layer \in 1..Len(Stack)
    /\ LET out == Handle(http)
       IN  http' =
             IF out.kind = "respond"
             THEN [http EXCEPT !.layer = 0, !.status = out.status, !.by = out.by]
             ELSE IF out.kind = "next" THEN [http EXCEPT !.layer = @ + 1]
             ELSE IF out.kind = "error" THEN [http EXCEPT !.layer = @ + 1, !.err = out.err]
             ELSE [http EXCEPT !.layer = -1]
    /\ UNCHANGED <<tickets, nextId, now, tz, pc, req, loc, resp, issued, dist>>

----------------------------------------------------------------------------
(* Specifications *)

InitRouter ==
    /\ tickets = {}
    /\ nextId = 1
    /\ now = 0
    /\ pc = [p \in Conns |-> "idle"]
    /\ req = [p \in Conns |-> NoReq]
    /\ loc = [p \in Conns |-> NoLoc]
    /\ resp = [p \in Conns |-> NoResp]
    /\ issued = <<>>

InitServer ==
    /\ dist \in Bundles
    /\ http = HttpIdle

\* two connections whose requests interleave at their await points
Init == InitRouter /\ tz = 0 /\ dist = {} /\ http = HttpIdle

Next ==
    \/ \E p \in Conns, body \in ConcBodies : Create(p, body)
    \/ \E p \in Conns, q \in ConcQueries : ListCount(p, q)
    \/ \E p \in Conns : ListFind(p)
    \/ \E p \in Conns, q \in ConcQueries : Export(p, q)
    \/ \E p \in Conns, raw \in RawIds : DeleteFind(p, raw)
    \/ \E p \in Conns : DeleteDelete(p)
    \/ \E p \in Conns : Close(p)

Spec == Init /\ [][Next]_vars

\* one connection, its requests served one after the other, in any time zone
ListInit == InitRouter /\ tz \in TZOffsets /\ dist = {} /\ http = HttpIdle

ListNext ==
    \/ \E body \in Bodies : Create(1, body)
    \/ \E q \in Queries : ListCount(1, q)
    \/ ListFind(1)
    \/ \E q \in Queries : Export(1, q)
    \/ Close(1)

ListSpec == ListInit /\ [][ListNext]_vars

\* the server's chain alone: requests of any method and path, one at a time
ServerInit == InitRouter /\ tz = 0 /\ InitServer

ServerNext ==
    \/ \E method \in Methods, path \in Paths : Receive(method, path)
    \/ Dispatch

ServerSpec == ServerInit /\ [][ServerNext]_vars

----------------------------------------------------------------------------
(* Properties *)

\* connection p has received the response to a request of kind op
Answered(p, op) == pc[p] = "done" /\ req[p].op = op

RowIds(S) == {t.id : t \in S}
Range(f) == {f[i] : i \in DOMAIN f}

\* C1: when no record matches the filter of a valid query, List answers 404 and
\* Export answers 404; neither answers 200 with an empty list of tickets.
C1_EmptyMatchIs404 ==
    \A p \in Conns :
        /\ (Answered(p, "list") /\ ValidGetTickets(req[p].query)
                /\ Matching(BuildWhere(req[p].query)) = {}) => resp[p].status = 404
        /\ (Answered(p, "export") /\ ValidGetTickets(req[p].query)
                /\ Matching(ExportWhere(req[p].query)) = {}) => resp[p].status = 404
        /\ ((Answered(p, "list") \/ Answered(p, "export")) /\ resp[p].status = 200)
                => resp[p].tickets # <<>>

C1_Witness ==
    /\ tickets # {}
    /\ \E p \in Conns :
        /\ Answered(p, "list")
        /\ req[p].query.reason # ""
        /\ Matching(BuildWhere(req[p].query)) = {}
        /\ resp[p].status = 404

\* the least k with k * limit >= total
PagesOf(total, limit) == CHOOSE k \in 0..total : k * limit >= total /\ (k - 1) * limit < total

\* positions lo..hi of an ordered result, as ids
Positions(ord, lo, hi) == [i \in 1..(hi - lo + 1) |-> ord[lo + i - 1].id]

\* C2: with total >= 1 matching records, limit >= 1 and 1 <= page <= ceil(total/limit),
\* List answers 200 with the records at positions (page-1)*limit+1 .. min(page*limit,
\* total) of the matching records in createdAt-descending order, totalTickets = total,
\* totalPages = ceil(total/limit) and page = the requested page.
C2_PageOfMatching ==
    \A p \in Conns :
        (Answered(p, "list") /\ ValidGetTickets(req[p].query)) =>
            LET q == req[p].query
                page == IF q.page = <<>> THEN 1 ELSE q.page[1]
                limit == IF q.limit = <<>> THEN 20 ELSE q.limit[1]
                matching == Matching(BuildWhere(q))
                total == Cardinality(matching)
                last == IF page * limit < total THEN page * limit ELSE total
            IN  (total >= 1 /\ page <= PagesOf(total, limit)) =>
                    /\ resp[p].status = 200
                    /\ resp[p].totalTickets = total
                    /\ resp[p].totalPages = PagesOf(total, limit)
                    /\ resp[p].page = page
                    /\ \E ord \in DescOrders(matching) :
                          resp[p].tickets = Positions(ord, (page - 1) * limit + 1, last)

\* page 2 of limit 2 over three matching records: the one record of the last page
C2_Witness ==
    \E p \in Conns :
        /\ Answered(p, "list")
        /\ req[p].query.page = <<2>> /\ req[p].query.limit = <<2>>
        /\ Cardinality(Matching(BuildWhere(req[p].query))) = 3
        /\ resp[p].status = 200
        /\ Len(resp[p].tickets) = 1
        /\ resp[p].totalPages = 2

\* the rows of calendar day d, on a server whose local time is UTC
RowsOfDay(d, reason) ==
    {t \in tickets :
        /\ t.tripDate >= d * TicksPerDay
        /\ t.tripDate <= d * TicksPerDay + (TicksPerDay - 1)
        /\ (reason # "" => t.reason = reason)}

\* C5: with exactly one of start_date / end_date given as the calendar date D, List and
\* Export select exactly the records whose tripDate lies on day D, whichever of the two
\* parameters carries D (stated for a server whose local time is UTC).
C5_SingleDateIsWholeDay ==
    \A p \in Conns :
        (/\ tz = 0
         /\ Answered(p, "list") \/ Answered(p, "export")
         /\ ValidGetTickets(req[p].query)
         /\ req[p].query.page = <<>> /\ req[p].query.limit = <<>>
         /\ (req[p].query.start_date = <<>>) # (req[p].query.end_date = <<>>)) =>
            LET q == req[p].query
                d == IF q.start_date # <<>> THEN q.start_date[1] ELSE q.end_date[1]
                day == RowsOfDay(d, q.reason)
            IN  IF day = {} THEN resp[p].status = 404
                ELSE resp[p].status = 200 /\ Range(resp[p].tickets) = RowIds(day)

\* C10: whenever at least one record matches the filter of a valid query, List answers
\* 200 with totalTickets >= 1, also for a page beyond the last.
C10_MatchIs200 ==
    \A p \in Conns :
        (/\ Answered(p, "list")
         /\ ValidGetTickets(req[p].query)
         /\ Matching(BuildWhere(req[p].query)) # {}) =>
            resp[p].status = 200 /\ resp[p].totalTickets >= 1

\* the character sequence is a decimal integer: an optional minus sign, then digits only
IsInteger(raw) ==
    LET digits == IF raw # <<>> /\ raw[1] = "-" THEN Tail(raw) ELSE raw
    IN  digits # <<>> /\ \A i \in 1..Len(digits) : digits[i] \in DOMAIN DigitVal

\* C3: Delete answers 400 for an id that is not an integer, and after a 200 the record
\* of that id is in the table no more.
C3_DeleteOutcome ==
    \A p \in Conns :
        Answered(p, "delete") =>
            /\ ~IsInteger(req[p].id) => resp[p].status = 400
            /\ resp[p].status = 200 => ParseInt(req[p].id)[1] \notin RowIds(tickets)

\* C4: the ticketIds of the 201 responses are pairwise distinct, whatever was deleted in
\* between, and no two rows share an id.
C4_IdsNeverReused ==
    /\ \A i, j \in 1..Len(issued) : i # j => issued[i] # issued[j]
    /\ \A t, u \in tickets : t.id = u.id => t = u
    /\ RowIds(tickets) \subseteq Range(issued)

\* three ids were issued and only the record of the last is left
C4_Witness ==
    /\ Len(issued) = 3
    /\ RowIds(tickets) = {issued[3]}
    /\ \E p \in Conns : Answered(p, "create") /\ resp[p].status = 201
                           /\ resp[p].ticketId = issued[3]
    /\ \E p \in Conns : Answered(p, "delete") /\ resp[p].status = 200

\* C8: a 200 List response is consistent with one state of the table: its totalTickets
\* counts at least the tickets it returns.
C8_ListIsAtomic ==
    \A p \in Conns :
        (Answered(p, "list") /\ resp[p].status = 200) =>
            resp[p].totalTickets >= Len(resp[p].tickets)

\* C9: a Delete is answered 200 or 404 (400 for an invalid id), also when another Delete
\* of the same id runs at the same time; no Delete ends in a 500-class error.
C9_ConcurrentDelete ==
    \A p \in Conns :
        Answered(p, "delete") => resp[p].status \in {200, 400, 404}

\* C6: a GET whose path starts with /api and matches no ticket route stays in the chain
\* until the 404 handler answers it; no handler leaves it without a response.
C6_UnmatchedApiIs404 ==
    (/\ http.method = "GET"
     /\ StartsWith(http.path, ApiPrefix)
     /\ TicketRoutes(http).kind = "next") =>
        /\ http.layer # -1
        /\ (http.layer = 0 => http.status = 404 /\ http.by = "notFound")

\* C7: a GET /health that has been answered was answered by the health handler.
C7_HealthAnswers ==
    (http.method = "GET" /\ http.path = HealthPath /\ http.layer = 0) =>
        http.by = "health"

====
